---- MODULE Spec2Model ----
(***************************************************************************)
(* Model of the rate-gated NWS API client of discord-weather-bot           *)
(* (src/nws.py) as it is driven by the bot's slash commands (src/main.py). *)
(*                                                                         *)
(* Both client methods run on the event-loop thread without awaiting, so a *)
(* call is split only where it blocks: at requests.get.  The timer task a  *)
(* call creates can run only while the loop is free (no call in progress). *)
(* The wall clock (time.time()) is an integer number of seconds.           *)
(***************************************************************************)
EXTENDS Integers, Sequences, FiniteSets, TLC

\* ------------------------------------------------------------------ bounds
Horizon == 10         \* seconds of wall-clock time explored
MaxCalls == 3         \* calls made on the client
MaxElapsed == 2       \* cap on the elapsed_seconds counter

\* --------------------------------------------------------- program constants
request_cooldown == 10

\* The clock is read in steps of half a cooldown, so that elapsed times below,
\* equal to and above the cooldown all occur.  time.time() counts from the
\* epoch: the first reading is not below the cooldown.
Quantum == request_cooldown \div 2
StartTime == request_cooldown
MaxTime == StartTime + Horizon

None == "None"

\* ------------------------------------------------------------- exceptions
\* Classes of nws.py derive from BaseException; the others are the
\* Exception subclasses requests / json / dict lookup raise.
LibraryErrors == {"ConnectionError", "JSONDecodeError", "KeyError"}

MsgNoArgument == "You must provide an argument in the form of a state code or county code"
MsgOneArgument == "You may only provide one argument"
MsgNotInGeoloc == "not found in geolocation database"
MsgNoCountyId == "County ID not found in API response."
MsgCouldNotParse == "Could not parse NWS API response. Please contact dev to check error logs"

NoResult == [kind |-> "none", msg |-> "", code |-> 0, wait |-> 0, value |-> <<>>]
Returned(v) == [kind |-> "return", msg |-> "", code |-> 0, wait |-> 0, value |-> v]
RateLimitError(w) ==
    [kind |-> "RateLimitError", msg |-> "Rate limited. Try again in", code |-> 0,
     wait |-> w, value |-> <<>>]
APIError(status_code) ==
    [kind |-> "APIError", msg |-> "Return status was recieved from NWS API",
     code |-> status_code, wait |-> 0, value |-> <<>>]
UnknownError(message) ==
    [kind |-> "UnknownError", msg |-> message, code |-> 0, wait |-> 0, value |-> <<>>]
\* an exception raised by a library: str(e) is its class name here
LibraryError(cls) ==
    [kind |-> cls, msg |-> cls, code |-> 0, wait |-> 0, value |-> <<>>]

\* `except Exception` catches e iff e's class derives from Exception
IsException_all(e) == e.kind # "none" /\ e.kind # "return"
IsException_unknown(e) == e.kind \in LibraryErrors \cup {"UnknownError"}
IsException(e) == e.kind \in LibraryErrors

\* --------------------------------------------------------------- rate gate
wait_time_full(current_time, lrt) == request_cooldown
wait_time(current_time, lrt) == request_cooldown - (current_time - lrt)

RateLimited_off(current_time, lrt) == FALSE
RateLimited_inclusive(current_time, lrt) == (current_time - lrt) <= request_cooldown
RateLimited(current_time, lrt) == (current_time - lrt) < request_cooldown

\* ------------------------------------------------- re.search([a-zA-Z]+\d+)
Letters == {"a"}
Digits == {"1"}
Alphabet == Letters \cup Digits \cup {"/"}

Min(S) == CHOOSE x \in S : \A y \in S : x <= y
Max(S) == CHOOSE x \in S : \A y \in S : x >= y

\* s[i..j] is a run of letters followed by a run of digits
MatchAt(s, i, j) ==
    \E k \in i..(j - 1) :
        /\ \A m \in i..k : s[m] \in Letters
        /\ \A m \in (k + 1)..j : s[m] \in Digits

\* leftmost match, each quantifier greedy; <<>> when there is no match
ReSearch(s) ==
    LET starts == {i \in 1..Len(s) : \E j \in i..Len(s) : MatchAt(s, i, j)}
    IN  IF starts = {} THEN <<>>
        ELSE LET i == Min(starts)
                 j == Max({e \in i..Len(s) : MatchAt(s, i, e)})
             IN  SubSeq(s, i, j)

\* ------------------------------------------------------------ environment
\* rows of the geolocation database (city, state_code)
Locations == {<<"Tulsa", "OK">>}
Cities == {"Tulsa", "Nowhere"}
StateCodes == {"OK"}
CountyCodes == {"OKC143"}

\* properties.county strings a 200 point lookup may carry
CountyStrings ==
    {<<>>,
     <<"a", "1">>,
     <<"/", "a", "a", "1", "1", "/">>,
     <<"a", "1", "/", "a", "1", "1">>,
     <<"1", "a">>,
     <<"a", "/", "1">>}

\* what requests.get gives back: an exception, or a status and a body.
\* fmt "notjson": json() raises; "nocounty": no properties.county key;
\* "county": data is the county string; "alerts": data is the feature list.
StatusCodes == {200, 404, 503}
PointBodies ==
    {[fmt |-> "notjson", data |-> <<>>], [fmt |-> "nocounty", data |-> <<>>]}
    \cup {[fmt |-> "county", data |-> s] : s \in CountyStrings}
AlertBodies ==
    {[fmt |-> "notjson", data |-> <<>>], [fmt |-> "alerts", data |-> <<>>],
     [fmt |-> "alerts", data |-> <<"feature">>]}
Bodies(site) == IF site = "points" THEN PointBodies ELSE AlertBodies
Outcomes(site) ==
    {[exc |-> "ConnectionError", status |-> 0, body |-> [fmt |-> "notjson", data |-> <<>>]]}
    \cup {[exc |-> "", status |-> st, body |-> [fmt |-> "notjson", data |-> <<>>]] :
              st \in StatusCodes \ {200}}
    \cup {[exc |-> "", status |-> 200, body |-> b] : b \in Bodies(site)}
NoOutcome == [exc |-> "", status |-> 0, body |-> [fmt |-> "notjson", data |-> <<>>]]

\* ------------------------------------------------------------------ state
VARIABLES
    now,                \* time.time()
    last_request_time,  \* NWS.last_request_time
    elapsed_seconds,    \* NWS.elapsed_seconds
    stop_event,         \* NWS._stop_event.is_set()
    timer_task,         \* NWS.timer_task: index into tasks, 0 before the first gate pass
    tasks,              \* every asyncio task created by __check_time, in creation order
    pc,                 \* "idle", or "http" while a call blocks in requests.get
    call,               \* the current (or last) call: arguments and the state it entered with
    http,               \* HTTP requests issued to api.weather.gov, in order
    log,                \* lines of api_err_log.txt
    result,             \* how the last call ended
    thr,                \* callers on threads of their own: each one's position in its call
    alert,              \* slash_getwarnings: the alert feature at hand and its classification
    cmd                 \* slash_addcity: the command at hand, its reply, the server_counties rows

vars == <<now, last_request_time, elapsed_seconds, stop_event, timer_task, tasks,
          pc, call, http, log, result>>
others == <<thr, alert, cmd>>
allvars == <<vars, others>>

NoCall ==
    [n |-> 0, op |-> "none", city |-> None, state_code |-> None, county_code |-> None,
     site |-> None, at |-> 0, lrt0 |-> 0, log0 |-> 0, http0 |-> 0, tasks0 |-> 0,
     out |-> NoOutcome, prev |-> [kind |-> "none", wait |-> 0, at |-> 0]]

\* the record of a call entered in the current state: its arguments, the
\* state it found (time, last_request_time, sizes of the log, of the request
\* history and of the task list) and how the call before it ended
Enter(op, city, state_code, county_code, site) ==
    [n |-> call.n + 1, op |-> op, city |-> city, state_code |-> state_code,
     county_code |-> county_code, site |-> site, at |-> now,
     lrt0 |-> last_request_time, log0 |-> Len(log), http0 |-> Len(http),
     tasks0 |-> Len(tasks), out |-> NoOutcome,
     prev |-> [kind |-> result.kind, wait |-> result.wait, at |-> call.at]]

\* the bot before any command: no thread is in a call, no alert is being
\* classified, no addcity command has run
NoThreads == <<>>
NoAlert == [stage |-> "none"]
NoCommand == [n |-> 0, stage |-> "none"]

ClientInit ==
    /\ now = StartTime
    /\ last_request_time = 0
    /\ elapsed_seconds = 0
    /\ stop_event = FALSE
    /\ timer_task = 0
    /\ tasks = <<>>
    /\ pc = "idle"
    /\ call = NoCall
    /\ http = <<>>
    /\ log = <<>>
    /\ result = NoResult

Init ==
    /\ ClientInit
    /\ thr = NoThreads
    /\ alert = NoAlert
    /\ cmd = NoCommand

\* ------------------------------------------------------------------ clock
Tick ==
    /\ now + Quantum <= MaxTime
    /\ now' = now + Quantum
    /\ UNCHANGED <<last_request_time, elapsed_seconds, stop_event, timer_task, tasks,
                   pc, call, http, log, result>>

\* ------------------------------------------------------------ timer task
\* __check_time after the gate: reset the counter, clear the event, create
\* the task (it does not run before the loop is free).  `stopped` is the
\* value of the event when the step ends.
StartTiming(stopped) ==
    /\ elapsed_seconds' = 0
    /\ stop_event' = stopped
    /\ tasks' = Append(tasks, [st |-> "pending", wake |-> 0])
    /\ timer_task' = Len(tasks) + 1

\* Task.cancel() on self.timer_task
Cancelled(ts, i) ==
    IF i \in 1..Len(ts) /\ ts[i].st \in {"pending", "sleeping"}
    THEN [ts EXCEPT ![i] = [st |-> "cancelled", wake |-> 0]]
    ELSE ts

\* the task's first step: lines 36-40, up to the first await
TimerStart(i) ==
    /\ pc = "idle"
    /\ i \in 1..Len(tasks)
    /\ tasks[i].st = "pending"
    /\ elapsed_seconds' = 0
    /\ stop_event' = FALSE
    /\ tasks' = [tasks EXCEPT ![i] = [st |-> "sleeping", wake |-> now + 1]]
    /\ UNCHANGED <<now, last_request_time, timer_task, pc, call, http, log, result>>

\* asyncio.sleep(1.0) returns: lines 41 and 39
TimerWake(i) ==
    /\ pc = "idle"
    /\ i \in 1..Len(tasks)
    /\ tasks[i].st = "sleeping"
    /\ now >= tasks[i].wake
    /\ elapsed_seconds < MaxElapsed
    /\ elapsed_seconds' = elapsed_seconds + 1
    /\ tasks' = [tasks EXCEPT ![i] =
                    IF stop_event THEN [st |-> "done", wake |-> 0]
                    ELSE [st |-> "sleeping", wake |-> now + 1]]
    /\ UNCHANGED <<now, last_request_time, stop_event, timer_task, pc, call, http,
                   log, result>>

\* ------------------------------------------------------- the request sites
\* self.last_request_time = time.time() is reached iff the status is 200
UpdatesLastRequestTime_always(out) == TRUE
UpdatesLastRequestTime_never(out) == FALSE
UpdatesLastRequestTime(out) == out.exc = "" /\ out.status = 200

\* the body of the try block: what it raises (NoResult if nothing) or returns
TryBody(site, out) ==
    IF out.exc # "" THEN [raised |-> LibraryError(out.exc), ret |-> <<>>]
    ELSE IF out.status = 200
    THEN IF out.body.fmt = "notjson"
         THEN [raised |-> LibraryError("JSONDecodeError"), ret |-> <<>>]
         ELSE IF site = "points"
         THEN IF out.body.fmt # "county"
              THEN [raised |-> LibraryError("KeyError"), ret |-> <<>>]
              ELSE LET county_id == ReSearch(out.body.data)
                   IN  IF county_id = <<>>
                       THEN [raised |-> UnknownError(MsgNoCountyId), ret |-> <<>>]
                       ELSE [raised |-> NoResult, ret |-> county_id]
         ELSE [raised |-> NoResult, ret |-> out.body.data]
    ELSE [raised |-> APIError(out.status), ret |-> <<>>]

\* open("api_err_log.txt", 'a'); f.write(...)
\* (a line is modelled by its exception text; the timestamp prefix is left out)
AppendLog_truncate(lines, e) == <<e.msg>>
AppendLog(lines, e) == Append(lines, e.msg)

\* what the except block raises for the exception e it caught
HandlerRaise_same(e) == e
HandlerRaise(e) == UnknownError(MsgCouldNotParse)

\* requests.get(...) is issued
SendRequest ==
    http' = Append(http, [sent |-> now, recv |-> 0, status |-> 0])

\* ---------------------------------------------------------------- the calls
\* NWS.countyid_from_city, up to requests.get
CountyidFromCity(city_name, state_code) ==
    /\ pc = "idle"
    /\ call.n < MaxCalls
    /\ call' = Enter("countyid_from_city", city_name, state_code, None, "points")
    /\ IF RateLimited(now, last_request_time)
       THEN /\ result' = RateLimitError(wait_time(now, last_request_time))
            /\ UNCHANGED <<elapsed_seconds, stop_event, timer_task, tasks, pc, http>>
       ELSE IF <<city_name, state_code>> \notin Locations
       THEN /\ StartTiming(TRUE)
            /\ result' = UnknownError(MsgNotInGeoloc)
            /\ UNCHANGED <<pc, http>>
       ELSE /\ StartTiming(FALSE)
            /\ SendRequest
            /\ result' = NoResult
            /\ pc' = "http"
    /\ UNCHANGED <<now, last_request_time, log>>

\* the argument check of check_active_alerts: the message raised, "" if legal
ArgumentError_lenient(state_code, county_code) ==
    IF state_code = None /\ county_code = None THEN MsgNoArgument ELSE ""
ArgumentError(state_code, county_code) ==
    IF state_code = None /\ county_code = None THEN MsgNoArgument
    ELSE IF state_code # None /\ county_code # None THEN MsgOneArgument
    ELSE ""

\* NWS.check_active_alerts, up to requests.get
CheckActiveAlerts(state_code, county_code) ==
    /\ pc = "idle"
    /\ call.n < MaxCalls
    /\ call' = Enter("check_active_alerts", None, state_code, county_code,
                     IF state_code # None THEN "area" ELSE "zone")
    /\ IF ArgumentError(state_code, county_code) # ""
       THEN /\ result' = UnknownError(ArgumentError(state_code, county_code))
            /\ UNCHANGED <<elapsed_seconds, stop_event, timer_task, tasks, pc, http>>
       ELSE IF RateLimited(now, last_request_time)
       THEN /\ result' = RateLimitError(wait_time(now, last_request_time))
            /\ UNCHANGED <<elapsed_seconds, stop_event, timer_task, tasks, pc, http>>
       ELSE /\ StartTiming(FALSE)
            /\ SendRequest
            /\ result' = NoResult
            /\ pc' = "http"
    /\ UNCHANGED <<now, last_request_time, log>>

\* requests.get returns or raises; the rest of try / except / finally
Response(out) ==
    /\ pc = "http"
    /\ LET body == TryBody(call.site, out)
           caught == body.raised.kind # "none" /\ IsException(body.raised)
       IN  /\ last_request_time' =
                  IF UpdatesLastRequestTime(out) THEN now ELSE last_request_time
           /\ log' = IF caught THEN AppendLog(log, body.raised) ELSE log
           /\ result' = IF caught THEN HandlerRaise(body.raised)
                         ELSE IF body.raised.kind # "none" THEN body.raised
                         ELSE Returned(body.ret)
    /\ stop_event' = TRUE
    /\ tasks' = Cancelled(tasks, timer_task)
    /\ http' = [http EXCEPT ![call.http0 + 1] =
                    [@ EXCEPT !.recv = now, !.status = out.status]]
    /\ call' = [call EXCEPT !.out = out]
    /\ pc' = "idle"
    /\ UNCHANGED <<now, elapsed_seconds, timer_task>>

Next ==
    \/ Tick /\ UNCHANGED others
    \/ \E c \in Cities, s \in StateCodes : CountyidFromCity(c, s) /\ UNCHANGED others
    \/ \E s \in StateCodes \cup {None}, c \in CountyCodes \cup {None} :
          CheckActiveAlerts(s, c) /\ UNCHANGED others
    \/ \E out \in Outcomes(call.site) : Response(out) /\ UNCHANGED others
    \/ \E i \in 1..MaxCalls : TimerStart(i) /\ UNCHANGED others
    \/ \E i \in 1..MaxCalls : TimerWake(i) /\ UNCHANGED others

Spec == Init /\ [][Next]_allvars

\* ------------------------------------------------- callers on two threads
\* Two callers share the NWS object, each on a thread with a running event
\* loop of its own, so a thread can be preempted while it blocks in
\* requests.get.  (On the bot's single loop the calls above never overlap.)
Callers == {"t1", "t2"}
IdleThread == [pc |-> "idle", n |-> 0, site |-> None, at |-> 0, lrt0 |-> 0, req |-> 0,
               kind |-> "none"]

\* __check_time, once the gate is passed, assigns elapsed_seconds, the event
\* and timer_task only: last_request_time keeps its value
AfterGate_reserve(current_time, lrt) == current_time
AfterGate(current_time, lrt) == lrt

ThreadsInit ==
    /\ ClientInit
    /\ thr = [a \in Callers |-> IdleThread]
    /\ alert = NoAlert
    /\ cmd = NoCommand

\* a call with legal arguments on thread a (each caller makes one call), up
\* to requests.get
ThreadCall(a, site) ==
    /\ thr[a].pc = "idle"
    /\ thr[a].n = 0
    /\ IF RateLimited(now, last_request_time)
       THEN /\ thr' = [thr EXCEPT ![a] =
                        [pc |-> "idle", n |-> @.n + 1, site |-> site, at |-> now,
                         lrt0 |-> last_request_time, req |-> 0,
                         kind |-> "RateLimitError"]]
            /\ UNCHANGED <<last_request_time, elapsed_seconds, stop_event, timer_task,
                           tasks, http>>
       ELSE /\ StartTiming(FALSE)
            /\ SendRequest
            /\ last_request_time' = AfterGate(now, last_request_time)
            /\ thr' = [thr EXCEPT ![a] =
                        [pc |-> "http", n |-> @.n + 1, site |-> site, at |-> now,
                         lrt0 |-> last_request_time, req |-> Len(http) + 1,
                         kind |-> "none"]]
    /\ UNCHANGED <<now, log, pc, call, result, alert, cmd>>

\* requests.get returns or raises on thread a; the rest of try / except / finally
ThreadResponse(a, out) ==
    /\ thr[a].pc = "http"
    /\ LET body == TryBody(thr[a].site, out)
           caught == body.raised.kind # "none" /\ IsException(body.raised)
           ended == IF caught THEN HandlerRaise(body.raised)
                    ELSE IF body.raised.kind # "none" THEN body.raised
                    ELSE Returned(body.ret)
       IN  /\ last_request_time' =
                  IF UpdatesLastRequestTime(out) THEN now ELSE last_request_time
           /\ log' = IF caught THEN AppendLog(log, body.raised) ELSE log
           /\ thr' = [thr EXCEPT ![a] = [@ EXCEPT !.pc = "idle", !.kind = ended.kind]]
    /\ stop_event' = TRUE
    /\ tasks' = Cancelled(tasks, timer_task)
    /\ http' = [http EXCEPT ![thr[a].req] =
                    [@ EXCEPT !.recv = now, !.status = out.status]]
    /\ UNCHANGED <<now, elapsed_seconds, timer_task, pc, call, result, alert, cmd>>

ThreadsNext ==
    \/ Tick /\ UNCHANGED others
    \/ \E a \in Callers, site \in {"points", "area", "zone"} : ThreadCall(a, site)
    \/ \E a \in Callers : \E out \in Outcomes(thr[a].site) : ThreadResponse(a, out)

SpecThreads == ThreadsInit /\ [][ThreadsNext]_allvars

\* ------------------------------------------- slash_getwarnings: one alert
\* A string is a sequence of words; a word is <<letters, case>>, case "l" for
\* lower case and "U" for any spelling with a capital.  str.lower() makes
\* every word lower case; `in`, == and the regular expressions compare words
\* as written.
W(w) == <<w, "l">>
U(w) == <<w, "U">>
lower(s) == [i \in 1..Len(s) |-> <<s[i][1], "l">>]

\* Python's `pat in s`
In(pat, s) ==
    \E i \in 0..(Len(s) - Len(pat)) : \A k \in 1..Len(pat) : s[i + k] = pat[k]

\* re.search(r"(.+ watch|.+ warning)", h)[0]: leftmost start, first alternative
\* first, .+ greedy; <<>> when there is no match
AlertType_any(h) == h
AlertType(h) ==
    LET ends(kw) == {j \in 2..Len(h) : h[j] = W(kw)}
    IN  IF ends("watch") # {} THEN SubSeq(h, 1, Max(ends("watch")))
        ELSE IF ends("warning") # {} THEN SubSeq(h, 1, Max(ends("warning")))
        ELSE <<>>

\* re.search(r"(warning|emergency)", h)[0]: the leftmost of the two words
Severity(h) ==
    LET hits == {j \in 1..Len(h) : h[j] \in {W("warning"), W("emergency")}}
    IN  IF hits = {} THEN <<>> ELSE <<h[Min(hits)]>>

Tornado == <<W("tornado")>>
SevereThunderstorm == <<W("severe"), W("thunderstorm")>>
FlashFlood == <<W("flash"), W("flood")>>
PdsPhrase == <<W("particularly"), W("dangerous"), W("situation")>>
FloodEmergencyPhrase == <<W("flash"), W("flood"), W("emergency")>>

\* dict.get(key, default)[0]
First(parameters, key, default) ==
    IF key \in DOMAIN parameters THEN parameters[key][1] ELSE default[1]

\* which branch of the if / elif / elif chain a feature takes
alert_type(f) == AlertType(lower(f.headline))
InTornadoBranch(f) == alert_type(f) # <<>> /\ In(Tornado, lower(alert_type(f)))
InTstormBranch_if(f) ==
    alert_type(f) # <<>> /\ In(SevereThunderstorm, lower(alert_type(f)))
InTstormBranch(f) ==
    /\ alert_type(f) # <<>> /\ ~In(Tornado, lower(alert_type(f)))
    /\ In(SevereThunderstorm, lower(alert_type(f)))
InFloodBranch(f) ==
    /\ alert_type(f) # <<>> /\ ~In(Tornado, lower(alert_type(f)))
    /\ ~In(SevereThunderstorm, lower(alert_type(f)))
    /\ In(FlashFlood, lower(alert_type(f)))

\* the tests inside the branches
HasPds_raw(description) == In(PdsPhrase, description)
HasPds(description) == In(PdsPhrase, lower(description))
IsEmergency(parameters) ==
    LET nws_headline == lower(First(parameters, "NWSheadline", << <<>> >>))
        severity == Severity(lower(nws_headline))
    IN  severity # <<>> /\ In(<<W("emergency")>>, lower(severity))
IsDestructive_raw(parameters) ==
    First(parameters, "damageThreat", << <<U("unknown")>> >>) = <<W("destructive")>>
IsDestructive(parameters) ==
    lower(First(parameters, "damageThreat", << <<U("unknown")>> >>)) = <<W("destructive")>>
IsFloodEmergency_lower(parameters, description) ==
    \/ In(FloodEmergencyPhrase, lower(First(parameters, "NWSheadline", << <<>> >>)))
    \/ In(FloodEmergencyPhrase, lower(description))
IsFloodEmergency(parameters, description) ==
    \/ In(FloodEmergencyPhrase, lower(First(parameters, "NWSheadline", << <<>> >>)))
    \/ In(FloodEmergencyPhrase, description)

\* the four flags of a feature (reset to False for every feature)
pds_tor(f) == InTornadoBranch(f) /\ HasPds(f.description)
emergency_tor(f) ==
    InTornadoBranch(f) /\ ~HasPds(f.description) /\ IsEmergency(f.parameters)
destructive_tstorm(f) == InTstormBranch(f) /\ IsDestructive(f.parameters)
emergency_flood(f) == InFloodBranch(f) /\ IsFloodEmergency(f.parameters, f.description)

\* embed colours
ColorDefault == 16711705
ColorPurple == 8388736
ColorOrange == 16753920
ColorBlue == 255

Color(pds, etor, tstorm, flood) ==
    IF pds \/ etor THEN ColorPurple
    ELSE IF tstorm THEN ColorOrange
    ELSE IF flood THEN ColorBlue
    ELSE ColorDefault

\* embed titles (the emoji around the words are left out)
TitleTornadoEmergency == <<U("tornado"), U("emergency")>>
TitlePdsTornado == <<U("pds"), U("tornado"), U("warning")>>
TitleDestructive == <<U("destructive"), U("svr."), U("thunderstorm"), U("warning")>>
TitleFloodEmergency == <<U("flash"), U("flood"), U("emergency")>>

EmbedTitle(headline, pds, etor, tstorm, flood) ==
    IF etor THEN TitleTornadoEmergency
    ELSE IF pds THEN TitlePdsTornado
    ELSE IF tstorm THEN TitleDestructive
    ELSE IF flood THEN TitleFloodEmergency
    ELSE headline

\* alert features the upstream may return
Headlines ==
    {<<U("tornado"), U("warning")>>,
     <<W("tornado"), W("watch")>>,
     <<U("severe"), U("thunderstorm"), U("warning")>>,
     <<U("flash"), U("flood"), U("warning")>>,
     <<U("winter"), U("storm"), U("advisory")>>,
     <<U("winter"), U("storm"), U("warning")>>,
     <<U("severe"), U("thunderstorm"), U("warning"), W("and"), U("tornado"), U("watch")>>,
     <<U("flash"), U("flood"), U("warning"), W("for"), U("tornado"), U("alley")>>,
     <<U("tornado"), U("emergency")>>,
     <<U("warning")>>}
Descriptions ==
    {<<>>,
     <<W("a"), W("particularly"), W("dangerous"), W("situation")>>,
     <<U("particularly"), U("dangerous"), U("situation")>>,
     <<W("this"), W("is"), W("a"), W("flash"), W("flood"), W("emergency")>>,
     <<U("flash"), U("flood"), U("emergency")>>}
NwsHeadlines ==
    {<<>>,
     <<W("tornado"), W("warning")>>,
     <<U("tornado"), U("emergency"), W("for"), W("city")>>,
     <<U("tornado"), U("warning"), W("upgraded"), W("to"), U("tornado"), U("emergency")>>,
     <<U("emergency"), W("replaces"), U("warning")>>,
     <<U("flash"), U("flood"), U("emergency")>>}
DamageThreats ==
    {<<U("destructive")>>, <<W("destructive")>>, <<U("considerable")>>}
Parameters ==
    {[k \in K |-> IF k = "NWSheadline" THEN <<n>> ELSE <<d>>] :
        K \in SUBSET {"NWSheadline", "damageThreat"}, n \in NwsHeadlines,
        d \in DamageThreats}
Features ==
    [headline : Headlines, description : Descriptions, parameters : Parameters]

AlertsInit ==
    /\ ClientInit
    /\ thr = NoThreads
    /\ cmd = NoCommand
    /\ alert \in {[stage |-> "feature", feature |-> f] : f \in Features}

\* the body of the loop over alerts["features"] for the feature at hand
Classify ==
    /\ alert.stage = "feature"
    /\ LET f == alert.feature
           pds == pds_tor(f)
           etor == emergency_tor(f)
           tstorm == destructive_tstorm(f)
           flood == emergency_flood(f)
       IN  alert' = [stage |-> "embed", feature |-> f,
                     pds_tor |-> pds, emergency_tor |-> etor,
                     destructive_tstorm |-> tstorm, emergency_flood |-> flood,
                     color |-> Color(pds, etor, tstorm, flood),
                     title |-> EmbedTitle(f.headline, pds, etor, tstorm, flood)]
    /\ UNCHANGED <<vars, thr, cmd>>

\* the loop goes on to another feature
NextFeature(f) ==
    /\ alert.stage = "embed"
    /\ alert' = [stage |-> "feature", feature |-> f]
    /\ UNCHANGED <<vars, thr, cmd>>

AlertsNext ==
    \/ Classify
    \/ \E f \in Features : NextFeature(f)

SpecAlerts == AlertsInit /\ [][AlertsNext]_allvars

\* ------------------------------------------------------------ slash_addcity
\* rows of server_states (state_name, state_code) and the names a user types
ServerStates == {<<"Oklahoma", "OK">>}
StateNames == {"Oklahoma", "Atlantis"}
MsgCityAdded == "City added to bot database"

\* Bot.__parse_state_name
ParseStateName(state_name) ==
    IF \E r \in ServerStates : r[1] = state_name
    THEN (CHOOSE r \in ServerStates : r[1] = state_name)[2]
    ELSE None

\* the command after followup.send: its reply, whether its INSERT ran, the table
Replied(city, state_name, text, inserted, rows) ==
    [n |-> cmd.n + 1, stage |-> "replied", city |-> city, state_name |-> state_name,
     reply |-> text, inserted |-> inserted, rows |-> rows]

AddCityInit ==
    /\ ClientInit
    /\ thr = NoThreads
    /\ alert = NoAlert
    /\ cmd = [n |-> 0, stage |-> "none", city |-> None, state_name |-> None,
              reply |-> "", inserted |-> FALSE, rows |-> {}]

\* slash_addcity up to requests.get inside countyid_from_city, or up to its
\* reply when the state is unknown or countyid_from_city raises before it
AddCity(city, state_name) ==
    /\ pc = "idle"
    /\ cmd.stage # "calling"
    /\ cmd.n < MaxCalls
    /\ LET state_code == ParseStateName(state_name)
       IN  IF state_code = None
           THEN /\ cmd' = Replied(city, state_name, MsgCityAdded, FALSE, cmd.rows)
                /\ UNCHANGED vars
           ELSE /\ CountyidFromCity(city, state_code)
                /\ cmd' = IF pc' = "http"
                          THEN [cmd EXCEPT !.stage = "calling", !.city = city,
                                           !.state_name = state_name]
                          ELSE Replied(city, state_name, MsgCityAdded, FALSE, cmd.rows)
    /\ UNCHANGED <<thr, alert>>

\* countyid_from_city returns or raises; except / else of slash_addcity
AddCityResume(out) ==
    /\ cmd.stage = "calling"
    /\ Response(out)
    /\ cmd' = IF result'.kind = "return"
              THEN Replied(cmd.city, cmd.state_name, MsgCityAdded, TRUE,
                           cmd.rows \cup {<<result'.value, cmd.city>>})
              ELSE Replied(cmd.city, cmd.state_name, MsgCityAdded, FALSE, cmd.rows)
    /\ UNCHANGED <<thr, alert>>

AddCityNext ==
    \/ Tick /\ UNCHANGED others
    \/ \E c \in Cities, n \in StateNames : AddCity(c, n)
    \/ \E out \in Outcomes("points") : AddCityResume(out)
    \/ \E i \in 1..MaxCalls : TimerStart(i) /\ UNCHANGED others
    \/ \E i \in 1..MaxCalls : TimerWake(i) /\ UNCHANGED others

SpecAddCity == AddCityInit /\ [][AddCityNext]_allvars

\* ===================================================================== claims
\* a step that enters a call / the call's arguments are legal for its operation
CallEntered == call'.n = call.n + 1
Ended == pc = "idle" /\ call.n > 0
OneSelector(c) ==
    \/ c.op = "countyid_from_city"
    \/ c.op = "check_active_alerts" /\ ((c.state_code = None) # (c.county_code = None))
GateOpen(c) == c.at - c.lrt0 >= request_cooldown

\* C1: a call with legal arguments made while now - last_request_time <
\* request_cooldown fails with RateLimitError carrying request_cooldown -
\* (now - last_request_time), and the step changes nothing else: no field of
\* the client, no task, no HTTP request, no log line.
C1_RateLimitedStep ==
    (CallEntered /\ OneSelector(call') /\ now - last_request_time < request_cooldown)
    => /\ result'.kind = "RateLimitError"
       /\ result'.wait = request_cooldown - (now - last_request_time)
       /\ pc' = "idle"
       /\ UNCHANGED <<now, last_request_time, elapsed_seconds, stop_event, timer_task,
                      tasks, http, log>>
C1_RateLimitMutatesNothing == [][C1_RateLimitedStep]_vars

C1_Witness ==
    /\ Ended /\ call.op = "check_active_alerts" /\ call.county_code # None
    /\ call.lrt0 > 0 /\ call.at - call.lrt0 = Quantum
    /\ result.kind = "RateLimitError" /\ result.wait = request_cooldown - Quantum

\* C2 (as stated): any two consecutive HTTP requests are at least
\* request_cooldown apart, whatever the upstream answered.
C2_AllRequestsSpaced ==
    \A i \in 1..(Len(http) - 1) : http[i + 1].sent - http[i].sent >= request_cooldown

\* C2 (amended): a request issued after a request that was answered 200 is
\* issued at least request_cooldown after that answer was received.
C2_SpacedAfter200 ==
    \A i \in 1..Len(http) : \A j \in (i + 1)..Len(http) :
        http[i].status = 200 => http[j].sent >= http[i].recv + request_cooldown

C2_Witness ==
    /\ Len(http) >= 2
    /\ http[1].status = 200
    /\ http[2].sent = http[1].recv + request_cooldown

\* C3: a call made when now - last_request_time >= request_cooldown is not
\* rejected with RateLimitError, and returns the result if the upstream answers
\* 200 with a well-formed body; so for the first call of the process and for a
\* retry made at least the reported wait after a RateLimitError.
WellFormed(c) ==
    /\ c.out.exc = "" /\ c.out.status = 200
    /\ IF c.site = "points"
       THEN /\ c.out.body.fmt = "county"
            /\ \E i \in 1..(Len(c.out.body.data) - 1) :
                   c.out.body.data[i] \in Letters /\ c.out.body.data[i + 1] \in Digits
       ELSE c.out.body.fmt = "alerts"
C3_OpenGateAdmits ==
    /\ (call.n > 0 /\ GateOpen(call)) => result.kind # "RateLimitError"
    /\ (call.n = 1 /\ OneSelector(call)) => (GateOpen(call) /\ call.lrt0 = 0)
    /\ (call.prev.kind = "RateLimitError" /\ OneSelector(call)
            /\ call.at >= call.prev.at + call.prev.wait)
        => result.kind # "RateLimitError"
    /\ (Ended /\ OneSelector(call) /\ GateOpen(call) /\ WellFormed(call))
        => /\ result.kind = "return"
           /\ call.site # "points" => result.value = call.out.body.data
           /\ call.site = "points" =>
                 /\ Len(result.value) >= 2
                 /\ result.value[1] \in Letters
                 /\ result.value[Len(result.value)] \in Digits

C3_Witness ==
    /\ Ended /\ call.prev.kind = "RateLimitError"
    /\ call.at = call.prev.at + call.prev.wait
    /\ call.op = "countyid_from_city"
    /\ result.kind = "return" /\ result.value = <<"a", "a", "1", "1">>

\* C4: check_active_alerts with both selectors or with neither fails with
\* UnknownError before the gate: no request, no timer task, last_request_time
\* and every other field unchanged, also when the cooldown has not elapsed.
C4_BadSelectorStep ==
    (CallEntered /\ call'.op = "check_active_alerts"
        /\ ((call'.state_code = None) = (call'.county_code = None)))
    => /\ result'.kind = "UnknownError"
       /\ result'.msg = IF call'.state_code = None THEN MsgNoArgument ELSE MsgOneArgument
       /\ pc' = "idle"
       /\ UNCHANGED <<now, last_request_time, elapsed_seconds, stop_event, timer_task,
                      tasks, http, log>>
C4_BadSelectorsFailFirst == [][C4_BadSelectorStep]_vars

C4_Witness ==
    /\ Ended /\ call.op = "check_active_alerts"
    /\ call.state_code # None /\ call.county_code # None
    /\ call.at - call.lrt0 < request_cooldown
    /\ result.kind = "UnknownError" /\ result.msg = MsgOneArgument

\* C5: at each of the three request sites, a call that passed the gate and
\* received a status other than 200 ends with APIError carrying that status;
\* the except block does not turn it into UnknownError, and logs nothing.
C5_Non200IsAPIError ==
    (Ended /\ call.out.exc = "" /\ call.out.status \notin {0, 200})
    => /\ call.site \in {"points", "area", "zone"}
       /\ result.kind = "APIError"
       /\ result.code = call.out.status
       /\ Len(log) = call.log0

C5_Witness ==
    /\ Ended /\ call.site = "zone" /\ call.out.status = 503
    /\ result.kind = "APIError" /\ result.code = 503

\* C6: when the request raises, or the body of a 200 answer cannot be parsed
\* (json() raises, or properties.county is missing), the call ends with the
\* generic UnknownError, whose message is not the exception's text, and one
\* line (that text) is appended to the log; no step removes or rewrites a line.
ParseFailure(c) ==
    \/ c.out.exc # ""
    \/ /\ c.out.exc = "" /\ c.out.status = 200
       /\ \/ c.out.body.fmt = "notjson"
          \/ c.site = "points" /\ c.out.body.fmt = "nocounty"
RawText(c) ==
    IF c.out.exc # "" THEN c.out.exc
    ELSE IF c.out.body.fmt = "notjson" THEN "JSONDecodeError" ELSE "KeyError"
C6_FailureState ==
    (Ended /\ ParseFailure(call))
    => /\ result.kind = "UnknownError"
       /\ result.msg = MsgCouldNotParse
       /\ result.msg # RawText(call)
       /\ Len(log) = call.log0 + 1
       /\ log[Len(log)] = RawText(call)
C6_LogStep ==
    /\ Len(log') >= Len(log)
    /\ SubSeq(log', 1, Len(log)) = log
    /\ Len(log') <= Len(log) + 1
C6_FailureLoggedOnce == [](C6_FailureState) /\ [][C6_LogStep]_vars

C6_Witness ==
    /\ Ended /\ call.out.exc = "ConnectionError"
    /\ call.log0 = 1 /\ Len(log) = 2 /\ log[1] = "JSONDecodeError"
    /\ result.kind = "UnknownError"

\* C7 (as stated): a 200 point lookup whose county has no letters-then-digits
\* run is logged (one line) and the caller gets the generic "Could not parse".
NoZoneToken(c) ==
    /\ c.site = "points" /\ c.out.exc = "" /\ c.out.status = 200
    /\ c.out.body.fmt = "county"
    /\ ~ \E i \in 1..(Len(c.out.body.data) - 1) :
            c.out.body.data[i] \in Letters /\ c.out.body.data[i + 1] \in Digits
C7_MissLoggedAndGeneric ==
    (Ended /\ NoZoneToken(call))
    => /\ Len(log) = call.log0 + 1
       /\ result.kind = "UnknownError"
       /\ result.msg = MsgCouldNotParse

\* C7 (amended): such a call ends with UnknownError "County ID not found in
\* API response." as raised, which the except block does not catch: nothing is
\* logged, and last_request_time has been set to the time of the answer.
C7_MissPropagatesUnlogged ==
    (Ended /\ NoZoneToken(call))
    => /\ Len(log) = call.log0
       /\ result.kind = "UnknownError"
       /\ result.msg = MsgNoCountyId
       /\ last_request_time = http[Len(http)].recv

C7_Witness ==
    /\ Ended /\ NoZoneToken(call) /\ call.out.body.data = <<"a", "/", "1">>
    /\ result.msg = MsgNoCountyId

\* C8: once a call that started the timer has ended, no timer task is in
\* its loop with the stop event clear (it would go on incrementing
\* elapsed_seconds).
C8_TimerStoppedAfterCall ==
    pc = "idle" =>
        \A i \in 1..Len(tasks) : ~(tasks[i].st = "sleeping" /\ ~stop_event)

\* C9: last_request_time changes only in a call that received a 200 answer:
\* a call that ended any other way left it as it found it.
Got200(c) == c.out.exc = "" /\ c.out.status = 200
C9_OnlyA200Updates ==
    /\ (call.n > 0 /\ ~Got200(call)) => last_request_time = call.lrt0
    /\ (Ended /\ result.kind \in {"RateLimitError", "APIError"})
        => last_request_time = call.lrt0
    /\ (Ended /\ result.kind = "UnknownError"
            /\ result.msg \in {MsgNoArgument, MsgOneArgument, MsgNotInGeoloc})
        => last_request_time = call.lrt0
    /\ call.n = 0 => last_request_time = 0

C9_Witness ==
    /\ Ended /\ call.lrt0 > 0 /\ GateOpen(call) /\ call.at > call.lrt0
    /\ call.out.status = 404 /\ result.kind = "APIError"
    /\ last_request_time = call.lrt0

\* C10: a call issues at most one HTTP request and ends in exactly one of:
\* a returned result, RateLimitError, APIError, UnknownError; a result is
\* returned only when the gate was open and a 200 answer was parsed.
C10_OneRequestOneOutcome ==
    /\ Len(http) - call.http0 \in {0, 1}
    /\ Len(http) <= call.n
    /\ Ended => result.kind \in {"return", "RateLimitError", "APIError", "UnknownError"}
    /\ (Ended /\ result.kind = "return")
        => GateOpen(call) /\ WellFormed(call) /\ Len(http) = call.http0 + 1
    /\ (Ended /\ ~GateOpen(call) /\ OneSelector(call)) => result.kind = "RateLimitError"
    /\ (Ended /\ (ParseFailure(call) \/ NoZoneToken(call))) => result.kind = "UnknownError"

C10_Witness ==
    /\ Ended /\ call.n = MaxCalls /\ Len(http) = MaxCalls
    /\ call.out.exc = "ConnectionError" /\ result.kind = "UnknownError"

\* C11: with two callers on one NWS object the gate check and the update of
\* last_request_time are separate steps: a call that has passed the gate and
\* waits for its answer has left last_request_time as it found it (unless a 200
\* answer to the other call came in since), so the other caller passes the
\* same gate and both requests go out less than request_cooldown apart.
C11_GateDoesNotReserve ==
    \A a \in Callers :
        thr[a].pc = "http"
        => \/ last_request_time = thr[a].lrt0
           \/ \E i \in 1..Len(http) :
                 /\ i # thr[a].req
                 /\ http[i].status = 200
                 /\ http[i].recv = last_request_time
                 /\ http[i].recv >= thr[a].at

C11_Witness ==
    /\ Len(http) = 2
    /\ thr["t1"].req = 1 /\ thr["t2"].req = 2
    /\ thr["t1"].lrt0 = thr["t2"].lrt0
    /\ http[2].sent - http[1].sent < request_cooldown
    /\ http[2].sent < http[1].recv
    /\ http[1].status = 200 /\ http[2].status = 200
    /\ thr["t1"].kind = "return" /\ thr["t2"].kind = "return"

\* ---- claims about the classification of one alert (SpecAlerts)
Classified == alert.stage = "embed"
Category == AlertType(lower(alert.feature.headline))
NwsHeadlineLower ==
    lower(IF "NWSheadline" \in DOMAIN alert.feature.parameters
          THEN alert.feature.parameters["NWSheadline"][1] ELSE <<>>)
DamageThreat ==
    IF "damageThreat" \in DOMAIN alert.feature.parameters
    THEN alert.feature.parameters["damageThreat"][1] ELSE <<U("unknown")>>
FlagsSet ==
    {k \in {"pds_tor", "emergency_tor", "destructive_tstorm", "emergency_flood"} :
        alert[k]}

\* C12: for a tornado category without the PDS phrase in the lower-cased
\* description, emergency_tor is set exactly when the lower-cased NWSheadline
\* contains "emergency", wherever "warning" stands; no flag is set otherwise;
\* with the flag the colour is purple and the title TORNADO EMERGENCY.
C12_EmergencyIffMentioned ==
    (/\ Classified
     /\ In(Tornado, Category)
     /\ ~In(PdsPhrase, lower(alert.feature.description)))
    => /\ alert.emergency_tor <=> In(<<W("emergency")>>, NwsHeadlineLower)
       /\ ~alert.emergency_tor => FlagsSet = {}
       /\ alert.emergency_tor =>
             /\ alert.color = ColorPurple
             /\ alert.title = <<U("tornado"), U("emergency")>>

\* C13: at most one of the four flags is set for any feature; a category
\* matching several of tornado / severe thunderstorm / flash flood is
\* handled by the first of these branches only.
C13_AtMostOneFlag ==
    Classified
    => /\ Cardinality(FlagsSet) <= 1
       /\ In(Tornado, Category) =>
             FlagsSet \subseteq {"pds_tor", "emergency_tor"}
       /\ (~In(Tornado, Category) /\ In(SevereThunderstorm, Category)) =>
             FlagsSet \subseteq {"destructive_tstorm"}
       /\ FlagsSet # {} =>
             (In(Tornado, Category) \/ In(SevereThunderstorm, Category)
                \/ In(FlashFlood, Category))

C13_Witness ==
    /\ Classified
    /\ In(Tornado, Category) /\ In(SevereThunderstorm, Category)
    /\ lower(DamageThreat) = <<W("destructive")>>
    /\ FlagsSet = {"pds_tor"}

\* C14: for a tornado category whose description contains "particularly
\* dangerous situation" in any letter case, pds_tor is set and emergency_tor
\* is not, whatever NWSheadline says; the colour is purple and the title the
\* PDS TORNADO WARNING override.
C14_PdsTornado ==
    (/\ Classified
     /\ In(Tornado, Category)
     /\ In(PdsPhrase, lower(alert.feature.description)))
    => /\ alert.pds_tor
       /\ ~alert.emergency_tor
       /\ FlagsSet = {"pds_tor"}
       /\ alert.color = ColorPurple
       /\ alert.title = <<U("pds"), U("tornado"), U("warning")>>

C14_Witness ==
    /\ Classified
    /\ alert.feature.description = <<U("particularly"), U("dangerous"), U("situation")>>
    /\ In(<<W("emergency")>>, NwsHeadlineLower)
    /\ alert.pds_tor /\ ~alert.emergency_tor
    /\ alert.color = ColorPurple

\* C15 (as stated): for a severe thunderstorm category without tornado,
\* destructive_tstorm is set exactly when damageThreat ("Unknown" if absent)
\* equals "destructive" in any case; the colour is then orange and the title
\* exactly DESTRUCTIVE SEVERE THUNDERSTORM WARNING.
TstormCase ==
    Classified /\ In(SevereThunderstorm, Category) /\ ~In(Tornado, Category)
C15_DestructiveSevereTitle ==
    TstormCase
    => /\ alert.destructive_tstorm <=> (lower(DamageThreat) = <<W("destructive")>>)
       /\ alert.destructive_tstorm =>
             /\ alert.color = ColorOrange
             /\ alert.title =
                   <<U("destructive"), U("severe"), U("thunderstorm"), U("warning")>>

\* C15 (amended): the same, with the title the code sets: DESTRUCTIVE SVR.
\* THUNDERSTORM WARNING.
C15_DestructiveSvrTitle ==
    TstormCase
    => /\ alert.destructive_tstorm <=> (lower(DamageThreat) = <<W("destructive")>>)
       /\ alert.destructive_tstorm =>
             /\ FlagsSet = {"destructive_tstorm"}
             /\ alert.color = ColorOrange
             /\ alert.title =
                   <<U("destructive"), U("svr."), U("thunderstorm"), U("warning")>>

C15_Witness ==
    /\ TstormCase
    /\ DamageThreat = <<U("destructive")>>
    /\ alert.destructive_tstorm
    /\ alert.color = ColorOrange

\* C16: for a flash flood category with neither tornado nor severe
\* thunderstorm, emergency_flood is set exactly when the lower-cased
\* NWSheadline or the description as written contains "flash flood
\* emergency"; the colour is then blue and the title FLASH FLOOD EMERGENCY.
FloodCase ==
    /\ Classified /\ In(FlashFlood, Category)
    /\ ~In(Tornado, Category) /\ ~In(SevereThunderstorm, Category)
C16_FloodEmergency ==
    FloodCase
    => /\ alert.emergency_flood <=>
             \/ In(FloodEmergencyPhrase, NwsHeadlineLower)
             \/ In(FloodEmergencyPhrase, alert.feature.description)
       /\ alert.emergency_flood =>
             /\ FlagsSet = {"emergency_flood"}
             /\ alert.color = ColorBlue
             /\ alert.title = <<U("flash"), U("flood"), U("emergency")>>

C16_Witness ==
    /\ FloodCase
    /\ "NWSheadline" \in DOMAIN alert.feature.parameters
    /\ alert.feature.description = <<U("flash"), U("flood"), U("emergency")>>
    /\ alert.feature.parameters["NWSheadline"][1] = <<U("flash"), U("flood"), U("emergency")>>
    /\ alert.emergency_flood /\ alert.color = ColorBlue

\* C17: a headline that matches neither "<anything> watch" nor "<anything>
\* warning", or whose category holds none of the three kinds, gets no flag,
\* the default colour and its own headline as title; and for every alert the
\* title is the headline with the default colour exactly when no flag is set.
NoWatchOrWarning ==
    ~ \E j \in 2..Len(alert.feature.headline) :
          lower(alert.feature.headline)[j] \in {W("watch"), W("warning")}
NoKind ==
    /\ ~In(Tornado, Category) /\ ~In(SevereThunderstorm, Category)
    /\ ~In(FlashFlood, Category)
C17_PlainAlert ==
    Classified
    => /\ (NoWatchOrWarning \/ NoKind) =>
             /\ FlagsSet = {}
             /\ alert.color = ColorDefault
             /\ alert.title = alert.feature.headline
       /\ (alert.title = alert.feature.headline /\ alert.color = ColorDefault)
             <=> FlagsSet = {}

C17_Witness ==
    /\ Classified
    /\ alert.feature.headline = <<U("tornado"), U("emergency")>>
    /\ In(PdsPhrase, lower(alert.feature.description))
    /\ In(<<W("emergency")>>, NwsHeadlineLower)
    /\ FlagsSet = {} /\ alert.color = ColorDefault
    /\ alert.title = alert.feature.headline

\* C18 (as stated): countyid_from_city sets last_request_time only when it
\* returns a zone id: a call that ends with an error leaves it unchanged.
C18_OnlySuccessRecords ==
    (Ended /\ call.op = "countyid_from_city" /\ result.kind # "return")
    => last_request_time = call.lrt0

\* C18 (amended): countyid_from_city sets last_request_time exactly when the
\* answer has status 200, to the time of the answer and before the body is
\* parsed, whether the call then returns a zone id or fails on the body; any
\* other ending leaves it unchanged.
C18_Every200Records ==
    (Ended /\ call.op = "countyid_from_city")
    => /\ Got200(call) =>
             /\ Len(http) = call.http0 + 1
             /\ last_request_time = http[Len(http)].recv
             /\ last_request_time >= call.at
       /\ ~Got200(call) => last_request_time = call.lrt0
       /\ result.kind = "return" => Got200(call)

C18_Witness ==
    /\ Ended /\ call.op = "countyid_from_city"
    /\ Got200(call) /\ call.out.body.fmt = "notjson"
    /\ result.kind = "UnknownError"
    /\ last_request_time = now /\ last_request_time > call.lrt0

\* C19: addcity replies "City added to bot database" only if the command
\* inserted a (county id, city) row into server_counties.
C19_ReplyOnlyAfterInsert ==
    (cmd.stage = "replied" /\ cmd.reply = MsgCityAdded)
    => /\ cmd.inserted
       /\ \E r \in cmd.rows : r[2] = cmd.city

====
